---- MODULE Spec2Model ----
(***************************************************************************)
(* Model of the two scripts of zartigl's data preparation:                 *)
(*   scripts/build_catalog.py  (build_entry, main)                         *)
(*   scripts/subset_zarr.py    (main)                                      *)
(* Python's None is the empty sequence and a present value x is <<x>>.     *)
(* A Python dict is a function whose DOMAIN is the set of its keys.        *)
(***************************************************************************)
EXTENDS Integers, Sequences, FiniteSets, TLC

VARIABLES
    \* ---- build_catalog.py main() ----
    targets,     \* TARGETS, the configured list
    cpc,         \* position of main(): "loop", "written", "crashed"
    idx,         \* 1-based index of the next target of the for loop
    entries,     \* the local list `entries`
    output,      \* the content of OUTPUT (catalog.json): None or <<catalog>>
    lastResp,    \* what copernicusmarine.describe did for the last query
    lastResult,  \* what build_entry did for the last query
    outcomes,    \* history: build_entry's result for every target queried
    \* ---- build_entry applied to one coordinate (lines 81-105) ----
    dcoord,      \* the coordinate the provider reports
    dres,        \* None, or <<result of build_entry>>
    \* ---- subset_zarr.py main() ----
    cfg,         \* VARIABLES, coarsen_factor, chunk_sizes of the script
    remote,      \* the dataset the provider serves
    tpc,         \* position of main()
    ds,          \* the local `ds`
    dest,        \* OUTPUT_DIR on disk
    encoding,    \* the local `encoding`
    listed,      \* None, or <<names printed by the verification>>
    stages,      \* history: the stages executed in this run
    remoteOpens, \* history: number of open_dataset calls issued in this run
    runs         \* number of runs started

cvars == <<targets, cpc, idx, entries, output, lastResp, lastResult, outcomes>>
dvars == <<dcoord, dres>>
tvars == <<cfg, remote, tpc, ds, dest, encoding, listed, stages, remoteOpens, runs>>
vars == <<cvars, dvars, tvars>>

None == <<>>
Some(x) == <<x>>
Opt(S) == {None} \cup {Some(x) : x \in S}

Abs(n) == IF n < 0 THEN -n ELSE n

\* ---------------------------------------------------------------- bounds
MaxTargets == 2
MaxClock == 2
MaxValuesLen == 3
MaxCoord == 5
MaxStep == 2
MaxRuns == 2
MaxTime == 3
MaxTimeLen == 3

\* ====================================================== build_catalog.py

\* int(a / b) of Python for integers a and b # 0: the quotient truncated
\* towards zero.
PyIntDiv(a, b) ==
    IF (a >= 0) = (b > 0) THEN Abs(a) \div Abs(b) ELSE -(Abs(a) \div Abs(b))

\* `if x:` on an optional number: None and 0 are false.
TruthyNum(x) == x # None /\ x[1] # 0

\* `if x:` on an optional string: None and "" are false.
TruthyStr(x) == x # None /\ x[1] # ""

Raise(e) == [kind |-> "raise", exc |-> e]
Absent == [kind |-> "absent"]

\* The body of the loop over ref_var.coordinates up to the assignment to
\* `dimensions`: the dict `dim` of one coordinate, or the exception raised.
DimensionOf(coord) ==
    LET base == "axis" :> coord.axis
        chunk == IF coord.chunking_length # None
                 THEN "chunk_size" :> coord.chunking_length[1] ELSE <<>>
        units == IF TruthyStr(coord.coordinate_unit)
                 THEN "units" :> coord.coordinate_unit[1] ELSE <<>>
    IN  IF coord.values # None
        THEN [kind |-> "dim",
              dim |-> base @@ ("values" :> coord.values[1])
                           @@ ("size" :> Some(Len(coord.values[1])))
                           @@ chunk @@ units]
        ELSE IF TruthyNum(coord.step)
                  /\ (coord.maximum_value = None \/ coord.minimum_value = None)
        THEN Raise("TypeError")
        ELSE LET size == IF TruthyNum(coord.step)
                         THEN Some(PyIntDiv(coord.maximum_value[1]
                                             - coord.minimum_value[1],
                                            coord.step[1]) + 1)
                         ELSE None
                 min == IF coord.minimum_value # None
                        THEN "min" :> coord.minimum_value[1] ELSE <<>>
                 max == IF coord.maximum_value # None
                        THEN "max" :> coord.maximum_value[1] ELSE <<>>
                 step == IF coord.step # None
                         THEN "step" :> coord.step[1] ELSE <<>>
             IN  [kind |-> "dim",
                  dim |-> base @@ ("size" :> size) @@ min @@ max @@ step
                               @@ chunk @@ units]

\* The loop over ref_var.coordinates from coordinate i on, `acc` being the
\* dict `dimensions` so far: the final dict, or the first exception.
RECURSIVE DimensionsFrom(_, _, _)
DimensionsFrom(coords, i, acc) ==
    IF i > Len(coords) THEN [kind |-> "dims", dims |-> acc]
    ELSE LET r == DimensionOf(coords[i])
         IN  IF r.kind = "raise" THEN r
             ELSE DimensionsFrom(coords, i + 1,
                                 (coords[i].coordinate_id :> r.dim) @@ acc)

\* The loop over svc.variables that fills the dict `variables`.
RECURSIVE VariablesFrom(_, _, _, _)
VariablesFrom(vs, wanted, i, acc) ==
    IF i > Len(vs) THEN acc
    ELSE VariablesFrom(vs, wanted, i + 1,
            IF vs[i].short_name \in wanted
            THEN (vs[i].short_name :>
                    [standard_name |-> vs[i].standard_name,
                     units |-> vs[i].units]) @@ acc
            ELSE acc)

\* A loop without the `break`: the last service of that name wins.
RECURSIVE FindServiceLast(_, _, _)
FindServiceLast(services, name, i) ==
    IF i > Len(services) THEN None
    ELSE LET later == FindServiceLast(services, name, i + 1) IN
         IF later # None THEN later
         ELSE IF services[i].service_name = name THEN Some(services[i])
         ELSE None

\* The loop that looks for the preferred service: None, or <<the first
\* service of that name>>.
RECURSIVE FindService(_, _, _)
FindService(services, name, i) ==
    IF i > Len(services) THEN None
    ELSE IF services[i].service_name = name THEN Some(services[i])
    ELSE FindService(services, name, i + 1)

\* build_entry(target), `resp` being what copernicusmarine.describe does:
\* it raises (resp.fault) or returns the catalogue resp.cat.
build_entry(target, resp) ==
    IF resp.fault THEN Raise("ProviderError")
    ELSE IF resp.cat.products = <<>> THEN Absent
    ELSE LET prod == resp.cat.products[1] IN
    IF prod.datasets = <<>> THEN Raise("IndexError")
    ELSE LET dset == prod.datasets[1] IN
    IF dset.versions = <<>> THEN Raise("IndexError")
    ELSE LET ver == dset.versions[1] IN
    IF ver.parts = <<>> THEN Raise("IndexError")
    ELSE LET part == ver.parts[1]
             svc == FindService(part.services, target.preferred_service, 1)
         IN
    IF svc = None \/ svc[1].service_format # "zarr" THEN Absent
    ELSE IF svc[1].variables = <<>> THEN Raise("IndexError")
    ELSE LET d == DimensionsFrom(svc[1].variables[1].coordinates, 1, <<>>) IN
    IF d.kind = "raise" THEN d
    ELSE [kind |-> "entry",
          entry |-> [id |-> target.dataset_id,
                     product |-> prod.product_id,
                     label |-> target.label,
                     zarr_url |-> svc[1].uri,
                     variables |-> VariablesFrom(svc[1].variables,
                                                 target.variables, 1, <<>>),
                     dimensions |-> d.dims]]

\* ------------------------------------------------ inputs of the builder

SeqsUpTo(S, n) == UNION {[1..k -> S] : k \in 0..n}

Coord(id, axis, values, min, max, step, chunk, unit) ==
    [coordinate_id |-> id, axis |-> axis, values |-> values,
     minimum_value |-> min, maximum_value |-> max, step |-> step,
     chunking_length |-> chunk, coordinate_unit |-> unit]

Variable(name, coords) ==
    [short_name |-> name, standard_name |-> <<"std", name>>, units |-> "m s-1",
     coordinates |-> coords]

Service(name, format, variables) ==
    [service_name |-> name, service_format |-> format,
     uri |-> <<"s3", name, format>>, variables |-> variables]

\* The catalogue describe returns, cut after `depth` levels of
\* product / dataset / version / part.
Hierarchy(depth, services) ==
    LET part == [services |-> services]
        ver == [parts |-> IF depth >= 4 THEN <<part>> ELSE <<>>]
        dset == [versions |-> IF depth >= 3 THEN <<ver>> ELSE <<>>]
        prod == [product_id |-> "GLOBAL_ANALYSISFORECAST_PHY",
                 datasets |-> IF depth >= 2 THEN <<dset>> ELSE <<>>]
    IN  [products |-> IF depth >= 1 THEN <<prod>> ELSE <<>>]

RegularCoord == Coord("longitude", "x", None, Some(0), Some(2), Some(1),
                      Some(1), Some("degrees_east"))
ValuesCoord == Coord("depth", "z", Some(<<1, 2>>), None, None, None,
                     None, None)
NoMinCoord == Coord("time", "t", None, None, Some(2), Some(1), None, Some(""))

VariableLists ==
    { <<>>,
      <<Variable("uo", <<ValuesCoord, RegularCoord>>)>>,
      <<Variable("vo", <<RegularCoord>>), Variable("uo", <<NoMinCoord>>),
        Variable("thetao", <<>>)>>,
      <<Variable("thetao", <<NoMinCoord>>)>> }

GeoSeries == "arco-geo-series"
TimeSeries == "arco-time-series"

ServiceLists(vs) ==
    { <<>>,
      <<Service(GeoSeries, "zarr", vs)>>,
      <<Service(GeoSeries, "netcdf", vs)>>,
      <<Service(TimeSeries, "zarr", vs)>>,
      <<Service(TimeSeries, "zarr", vs), Service(GeoSeries, "zarr", vs)>>,
      <<Service(GeoSeries, "netcdf", vs), Service(GeoSeries, "zarr", vs)>>,
      <<Service(GeoSeries, "zarr", vs), Service(GeoSeries, "netcdf", vs)>>,
      <<Service(TimeSeries, "netcdf", vs), Service("wmts", "wmts", vs)>> }

Fault == [fault |-> TRUE]
Returns(cat) == [fault |-> FALSE, cat |-> cat]

Responses ==
    {Fault}
    \cup {Returns(Hierarchy(d, <<>>)) : d \in 0..3}
    \cup {Returns(Hierarchy(4, sl)) : sl \in UNION {ServiceLists(vs) : vs \in VariableLists}}

TargetSet ==
    { [dataset_id |-> "cmems_mod_glo_phy-cur_anfc_0.083deg_PT6H-i",
       label |-> "Global Ocean Currents (analysis+forecast)",
       variables |-> {"uo", "vo"}, preferred_service |-> GeoSeries],
      [dataset_id |-> "cmems_mod_glo_phy_anfc_0.083deg_PT1H-m",
       label |-> "Global Ocean Physics (hourly)",
       variables |-> {"uo"}, preferred_service |-> TimeSeries] }

\* --------------------------------------------------- build_catalog main

CatalogInit ==
    /\ targets \in SeqsUpTo(TargetSet, MaxTargets)
    /\ cpc = "loop"
    /\ idx = 1
    /\ entries = <<>>
    /\ output = None
    /\ lastResp = None
    /\ lastResult = None
    /\ outcomes = <<>>

\* One iteration of `for target in TARGETS`: build_entry and the append.
\* An exception of build_entry leaves main (nothing catches it).
QueryTarget ==
    /\ cpc = "loop"
    /\ idx <= Len(targets)
    /\ \E resp \in Responses :
         LET r == build_entry(targets[idx], resp) IN
         /\ lastResp' = Some(resp)
         /\ lastResult' = Some(r)
         /\ outcomes' = Append(outcomes, r)
         /\ IF r.kind = "raise"
            THEN cpc' = "crashed" /\ UNCHANGED <<idx, entries>>
            ELSE /\ cpc' = cpc
                 /\ idx' = idx + 1
                 /\ entries' = IF r.kind = "entry"
                               THEN Append(entries, r.entry) ELSE entries
    /\ UNCHANGED <<targets, output, dvars, tvars>>

\* After the loop: the catalog is stamped and written over OUTPUT.
WriteCatalog ==
    /\ cpc = "loop"
    /\ idx > Len(targets)
    /\ \E now \in 1..MaxClock :
         output' = Some([generated |-> now, datasets |-> entries])
    /\ cpc' = "written"
    /\ UNCHANGED <<targets, idx, entries, lastResp, lastResult, outcomes>>
    /\ UNCHANGED <<dvars, tvars>>

\* ------------------------------------- build_entry over one coordinate

DimCoords ==
    { Coord("c", "x", v, mn, mx, st, ch, un) :
        v \in Opt({[i \in 1..n |-> i] : n \in 0..MaxValuesLen}),
        mn \in Opt(-MaxCoord..MaxCoord),
        mx \in Opt(-MaxCoord..MaxCoord),
        st \in Opt(-MaxStep..MaxStep),
        ch \in Opt({1}),
        un \in Opt({"", "m"}) }

DimTarget == CHOOSE t \in TargetSet : t.preferred_service = GeoSeries

DimResponse(coord) ==
    Returns(Hierarchy(4, <<Service(GeoSeries, "zarr",
                                   <<Variable("uo", <<coord>>)>>)>>))

DimInit ==
    /\ dcoord \in DimCoords
    /\ dres = None

DimBuild ==
    /\ dres = None
    /\ dres' = Some(build_entry(DimTarget, DimResponse(dcoord)))
    /\ UNCHANGED <<dcoord, cvars, tvars>>

\* ========================================================= subset_zarr.py

Range(f) == {f[x] : x \in DOMAIN f}

AxisNames == {"time", "depth", "latitude", "longitude"}

\* The literal `chunk_sizes` of main.
DefaultChunkSizes ==
    [d \in AxisNames |->
        CASE d = "time" -> 1
          [] d = "depth" -> 1
          [] d = "latitude" -> 170
          [] d = "longitude" -> 240]

\* The configuration literals of the script and the variations of them the
\* TranscodeSpec allows: the variable list, the coarsening factor and the
\* chunk sizes per axis.
VariableSets == {{"uo", "vo"}, {"uo"}}
CoarsenFactors == {0, 1, 3}
ChunkSizeDicts ==
    { DefaultChunkSizes,
      [d \in AxisNames \ {"latitude"} |-> DefaultChunkSizes[d]],
      ("elevation" :> 1) @@ DefaultChunkSizes }

Configs ==
    [variables : VariableSets, coarsen_factor : CoarsenFactors,
     chunk_sizes : ChunkSizeDicts]

ScriptConfig ==
    [variables |-> {"uo", "vo"}, coarsen_factor |-> 3,
     chunk_sizes |-> DefaultChunkSizes]

\* What the provider serves: the time axis, the axes of the data variables
\* in their order, the extents of the other axes, and the coordinates that
\* are no axis.
StandardDims == <<"time", "depth", "latitude", "longitude">>
DimOrders ==
    { StandardDims,
      <<"time", "latitude", "longitude", "depth">>,
      <<"time", "latitude", "longitude">>,
      <<"depth", "latitude", "longitude">>,
      <<"member", "time", "depth", "latitude", "longitude">> }

Grids ==
    { [depth |-> 1, latitude |-> 2041, longitude |-> 4320, member |-> 2],
      [depth |-> 2, latitude |-> 510, longitude |-> 720, member |-> 2],
      [depth |-> 1, latitude |-> 2, longitude |-> 2, member |-> 2] }

Remotes(times) ==
    [time : times, dims : DimOrders, grid : Grids,
     scalars : {{}, {"forecast_reference_time"}}]

Dests ==
    { [exists |-> FALSE, arrays |-> <<>>],
      [exists |-> TRUE, arrays |-> <<>>],
      [exists |-> TRUE, arrays |-> ("thetao" :> None)],
      [exists |-> TRUE, arrays |-> ("thetao" :> None) @@ ("vo" :> None)] }

TimeAxes == SeqsUpTo(1..MaxTime, MaxTimeLen)

Min(a, b) == IF a < b THEN a ELSE b

\* The dataset open_dataset returns for `variables`.
Opened(r, variables) ==
    [time |-> r.time,
     dims |-> r.dims,
     sizes |-> [d \in Range(r.dims) |->
                  IF d = "time" THEN Len(r.time) ELSE r.grid[d]],
     names |-> variables \cup Range(r.dims) \cup r.scalars,
     float32 |-> {},
     lazy |-> TRUE]

TranscodeInitOver(cfgs, times, dests) ==
    /\ cfg \in cfgs
    /\ remote \in Remotes(times)
    /\ dest \in dests
    /\ tpc = "start"
    /\ ds = None
    /\ encoding = None
    /\ listed = None
    /\ stages = <<>>
    /\ remoteOpens = 0
    /\ runs = 1

Fail(stage) ==
    /\ tpc' = "failed"
    /\ stages' = Append(stages, stage)

Pass(stage, next) ==
    /\ tpc' = next
    /\ stages' = Append(stages, stage)

\* copernicusmarine.open_dataset(...): the remote call; it may raise.
OpenDataset ==
    /\ tpc = "start"
    /\ remoteOpens' = remoteOpens + 1
    /\ \E ok \in BOOLEAN :
         IF ok
         THEN Pass("open", "opened") /\ ds' = Some(Opened(remote, cfg.variables))
         ELSE Fail("open") /\ ds' = ds
    /\ UNCHANGED <<cfg, remote, dest, encoding, listed, runs, cvars, dvars>>

\* latest_time = ds.time.values[-1]; ds = ds.sel(time=[latest_time]) and the
\* prints of depth, latitude and longitude. sel raises on an index that is
\* not unique.
SelectTime ==
    /\ tpc = "opened"
    /\ LET d == ds[1] IN
       IF \/ "time" \notin d.names
          \/ d.time = <<>>
          \/ Cardinality(Range(d.time)) # Len(d.time)
          \/ ~({"depth", "latitude", "longitude"} \subseteq d.names)
       THEN Fail("select") /\ ds' = ds
       ELSE /\ Pass("select", "selected")
            /\ ds' = Some([d EXCEPT !.time = <<d.time[Len(d.time)]>>,
                                    !.sizes["time"] = 1])
    /\ UNCHANGED <<cfg, remote, dest, encoding, listed, remoteOpens, runs, cvars, dvars>>

\* ds.coarsen(latitude=f, longitude=f, boundary="trim").mean()
Coarsen ==
    /\ tpc = "selected"
    /\ LET d == ds[1]
           f == cfg.coarsen_factor
       IN  IF f <= 0
           THEN Fail("coarsen") /\ ds' = ds
           ELSE /\ Pass("coarsen", "coarsened")
                /\ ds' = Some([d EXCEPT
                         !.sizes["latitude"] = d.sizes["latitude"] \div f,
                         !.sizes["longitude"] = d.sizes["longitude"] \div f])
    /\ UNCHANGED <<cfg, remote, dest, encoding, listed, remoteOpens, runs, cvars, dvars>>

\* astype(np.float32) of the variables and of latitude, longitude, depth.
Downcast ==
    /\ tpc = "coarsened"
    /\ LET d == ds[1]
           cast == cfg.variables \cup {"latitude", "longitude", "depth"}
       IN  IF ~(cast \subseteq d.names)
           THEN Fail("downcast") /\ ds' = ds
           ELSE /\ Pass("downcast", "downcast")
                /\ ds' = Some([d EXCEPT !.float32 = cast])
    /\ UNCHANGED <<cfg, remote, dest, encoding, listed, remoteOpens, runs, cvars, dvars>>

\* The wipe moved up, ahead of the downcast.
WipeDestinationEarly ==
    /\ tpc = "coarsened"
    /\ Pass("wipe", "wiped")
    /\ dest' = [exists |-> TRUE, arrays |-> <<>>]
    /\ UNCHANGED <<cfg, remote, ds, encoding, listed, remoteOpens, runs, cvars, dvars>>

\* shutil.rmtree(OUTPUT_DIR) if it exists, then mkdir.
WipeDestination ==
    /\ tpc = "downcast"
    /\ Pass("wipe", "wiped")
    /\ dest' = [exists |-> TRUE, arrays |-> <<>>]
    /\ UNCHANGED <<cfg, remote, ds, encoding, listed, remoteOpens, runs, cvars, dvars>>

\* ds.chunk(chunk_sizes).compute(): chunk raises on a key that is no
\* dimension of the dataset; compute leaves in-memory arrays.
Rechunk ==
    /\ tpc = "wiped"
    /\ LET d == ds[1] IN
       IF ~(DOMAIN cfg.chunk_sizes \subseteq Range(d.dims))
       THEN Fail("rechunk") /\ ds' = ds
       ELSE /\ Pass("rechunk", "materialized")
            /\ ds' = Some([d EXCEPT !.lazy = FALSE])
    /\ UNCHANGED <<cfg, remote, dest, encoding, listed, remoteOpens, runs, cvars, dvars>>

\* The tuple with every configured size clipped to the extent of its axis.
ChunkTupleClipped(chunk_sizes, dims, sizes) ==
    [i \in 1..Len(dims) |->
        IF dims[i] \in DOMAIN chunk_sizes
        THEN Min(chunk_sizes[dims[i]], sizes[dims[i]]) ELSE sizes[dims[i]]]

\* chunk_sizes.get(d, s) for d, s in zip(ds[name].dims, ds[name].shape)
ChunkTuple(chunk_sizes, dims, sizes) ==
    [i \in 1..Len(dims) |->
        IF dims[i] \in DOMAIN chunk_sizes
        THEN chunk_sizes[dims[i]] ELSE sizes[dims[i]]]

\* The loop that builds `encoding`.
EncodingOf(c, d) ==
    [name \in (c.variables \cup AxisNames) \cap d.names |->
        IF name \in c.variables
        THEN [compressor |-> "zlib-5",
              chunks |-> Some(ChunkTuple(c.chunk_sizes, d.dims, d.sizes))]
        ELSE [compressor |-> "zlib-5", chunks |-> None]]

AttachEncoding ==
    /\ tpc = "materialized"
    /\ Pass("encode", "encoded")
    /\ encoding' = Some(EncodingOf(cfg, ds[1]))
    /\ UNCHANGED <<cfg, remote, ds, dest, listed, remoteOpens, runs, cvars, dvars>>

\* The arrays to_zarr(mode="w") leaves in the store: every variable and
\* coordinate of the dataset, with the chunks of its encoding if any.
Written(d, enc) ==
    [name \in d.names |->
        IF name \in DOMAIN enc THEN enc[name].chunks ELSE None]

\* ds.to_zarr(str(OUTPUT_DIR), mode="w", consolidated=True, ...); the
\* write may raise.
WriteStore ==
    /\ tpc = "encoded"
    /\ \E ok \in BOOLEAN :
         IF ok
         THEN /\ Pass("write", "written")
              /\ dest' = [exists |-> TRUE, arrays |-> Written(ds[1], encoding[1])]
         ELSE Fail("write") /\ dest' = dest
    /\ UNCHANGED <<cfg, remote, ds, encoding, listed, remoteOpens, runs, cvars, dvars>>

\* zarr.open(mode="r"), the size sum and the prints up to "Done!".
Verify ==
    /\ tpc = "written"
    /\ Pass("verify", "done")
    /\ listed' = Some(DOMAIN dest.arrays)
    /\ UNCHANGED <<cfg, remote, ds, dest, encoding, remoteOpens, runs, cvars, dvars>>

\* The script is run again on the same destination, possibly for another
\* variable list.
RunAgain ==
    /\ tpc \in {"done", "failed"}
    /\ runs < MaxRuns
    /\ runs' = runs + 1
    /\ \E v \in VariableSets : cfg' = [cfg EXCEPT !.variables = v]
    /\ tpc' = "start"
    /\ ds' = None
    /\ encoding' = None
    /\ listed' = None
    /\ stages' = <<>>
    /\ remoteOpens' = 0
    /\ UNCHANGED <<remote, dest, cvars, dvars>>

\* ======================================================== specifications

CatalogIdle ==
    /\ targets = <<>> /\ cpc = "idle" /\ idx = 1 /\ entries = <<>>
    /\ output = None /\ lastResp = None /\ lastResult = None
    /\ outcomes = <<>>

DimIdle == dcoord = RegularCoord /\ dres = Some(Absent)

TranscodeIdle ==
    /\ cfg = ScriptConfig
    /\ remote \in Remotes({<<1>>})
    /\ remote.dims = StandardDims /\ remote.scalars = {}
    /\ remote.grid.latitude = 2041
    /\ dest = [exists |-> FALSE, arrays |-> <<>>]
    /\ tpc = "idle" /\ ds = None /\ encoding = None /\ listed = None
    /\ stages = <<>> /\ remoteOpens = 0 /\ runs = 1

CatalogNext == QueryTarget \/ WriteCatalog

CatalogStart == CatalogInit /\ DimIdle /\ TranscodeIdle

CatalogSpec == CatalogStart /\ [][CatalogNext]_vars

DimNext == DimBuild

DimStart == DimInit /\ CatalogIdle /\ TranscodeIdle

DimSpec == DimStart /\ [][DimNext]_vars

TranscodeNext ==
    \/ OpenDataset \/ SelectTime \/ Coarsen \/ Downcast \/ WipeDestination
    \/ Rechunk \/ AttachEncoding \/ WriteStore \/ Verify \/ RunAgain

TranscodeStart ==
    /\ TranscodeInitOver(Configs, {<<>>, <<1, 2>>}, Dests)
    /\ CatalogIdle /\ DimIdle

TranscodeSpec == TranscodeStart /\ [][TranscodeNext]_vars

LatestTimeStart ==
    /\ TranscodeInitOver({ScriptConfig}, TimeAxes,
                         {[exists |-> FALSE, arrays |-> <<>>]})
    /\ CatalogIdle /\ DimIdle

LatestTimeSpec == LatestTimeStart /\ [][TranscodeNext]_vars

\* ================================================================ claims

\* ---- helpers of the statements

FloorDiv(a, b) ==
    IF (a >= 0) = (b > 0) THEN Abs(a) \div Abs(b)
    ELSE -((Abs(a) + Abs(b) - 1) \div Abs(b))

QueriedTarget == targets[Len(outcomes)]

HasPart(cat) ==
    /\ cat.products # <<>>
    /\ cat.products[1].datasets # <<>>
    /\ cat.products[1].datasets[1].versions # <<>>
    /\ cat.products[1].datasets[1].versions[1].parts # <<>>

ServicesOf(cat) == cat.products[1].datasets[1].versions[1].parts[1].services

NoVariantNamed(services, name) ==
    \A i \in DOMAIN services : services[i].service_name # name

MatchNotZarr(services, name) ==
    \E i \in DOMAIN services :
        /\ services[i].service_name = name
        /\ services[i].service_format # "zarr"
        /\ \A j \in 1..(i - 1) : services[j].service_name # name

\* The positions of `outs` from i on whose result is an entry, in order.
RECURSIVE KeptFrom(_, _)
KeptFrom(outs, i) ==
    IF i > Len(outs) THEN <<>>
    ELSE IF outs[i].kind = "entry" THEN <<i>> \o KeptFrom(outs, i + 1)
    ELSE KeptFrom(outs, i + 1)

ExpectedNames == cfg.variables \cup AxisNames

MaxOf(S) == CHOOSE m \in S : \A x \in S : x <= m

StageOrder ==
    <<"open", "select", "coarsen", "downcast", "wipe", "rechunk", "encode",
      "write", "verify">>

IsPrefix(s, t) == Len(s) <= Len(t) /\ \A i \in 1..Len(s) : s[i] = t[i]

SelectionDone ==
    /\ ds # None
    /\ Len(stages) >= 2
    /\ ~(tpc = "failed" /\ Len(stages) = 2)

\* C1: a provider exception for a target does not abort the build: the
\* faulting target is skipped like an absent one and the loop goes on to the
\* next target.
C1_FaultsAreSkipped ==
    (lastResp = Some(Fault)) =>
        /\ cpc # "crashed"
        /\ idx = Len(outcomes) + 1

\* C2: build_entry returns absent when the provider reports no products, no
\* variant of the preferred name in the part, or a match that is not zarr;
\* and the datasets of the written catalog are exactly the entries of the
\* targets that were not absent, in the order of the targets, under a
\* timestamp.
C2_AbsentAndOrder ==
    /\ (lastResp # None /\ ~lastResp[1].fault) =>
         LET cat == lastResp[1].cat
             pref == QueriedTarget.preferred_service
         IN  (\/ cat.products = <<>>
              \/ /\ HasPart(cat)
                 /\ \/ NoVariantNamed(ServicesOf(cat), pref)
                    \/ MatchNotZarr(ServicesOf(cat), pref))
             => lastResult[1] = Absent
    /\ (cpc = "written") =>
         LET kept == KeptFrom(outcomes, 1)
             datasets == output[1].datasets
         IN  /\ Len(outcomes) = Len(targets)
             /\ Len(datasets) = Len(kept)
             /\ \A k \in 1..Len(kept) :
                  /\ datasets[k] = outcomes[kept[k]].entry
                  /\ datasets[k].id = targets[kept[k]].dataset_id
             /\ output[1].generated \in 1..MaxClock

C2_Witness ==
    /\ cpc = "written"
    /\ Len(targets) = 2
    /\ outcomes[1] = Absent
    /\ outcomes[2].kind = "entry"
    /\ Len(output[1].datasets) = 1

\* C3: when the names listed by the verification differ from the variables
\* plus time, depth, latitude and longitude, the run does not end in "Done".
C3_MismatchNeverDone ==
    (listed # None /\ listed[1] # ExpectedNames) => tpc # "done"

\* C4: after a successful run the arrays of the store are exactly the
\* variables of that run plus time, depth, latitude and longitude.
C4_StoreIsLastRun ==
    (tpc = "done") => DOMAIN dest.arrays = ExpectedNames

\* C5: the size of a dimension is the length of the explicit values when
\* there are any; otherwise floor((max - min) / step) + 1 whenever a step is
\* reported; and it is unset only when no step is reported.
C5_SizeIsFloorCount ==
    (dres # None) =>
        /\ dres[1].kind = "entry"
        /\ LET dim == dres[1].entry.dimensions[dcoord.coordinate_id]
               c == dcoord
           IN  /\ (c.values # None) => dim["size"] = Some(Len(c.values[1]))
               /\ (c.values = None /\ c.step # None) => dim["size"] # None
               /\ (/\ c.values = None /\ c.step # None /\ c.step # Some(0)
                   /\ c.minimum_value # None /\ c.maximum_value # None)
                  => dim["size"] =
                       Some(FloorDiv(c.maximum_value[1] - c.minimum_value[1],
                                     c.step[1]) + 1)
               /\ (c.values = None /\ c.step = None) => dim["size"] = None

\* C6: every dimension build_entry emits has either explicit values or a
\* min/max/step range, never both and never neither.
C6_ExactlyOneShape ==
    (dres # None /\ dres[1].kind = "entry") =>
        LET dim == dres[1].entry.dimensions[dcoord.coordinate_id]
        IN  ("values" \in DOMAIN dim)
              # ({"min", "max", "step"} \cap DOMAIN dim # {})

\* C7 as stated: the chunk tuple of a data variable is, per axis, the
\* configured chunk size clipped to the extent of the axis.
C7_ChunksClipped ==
    (encoding # None) =>
        \A name \in cfg.variables :
            LET chunks == encoding[1][name].chunks[1]
                d == ds[1]
            IN  \A i \in 1..Len(d.dims) :
                    (d.dims[i] \in DOMAIN cfg.chunk_sizes) =>
                        chunks[i] = Min(cfg.chunk_sizes[d.dims[i]],
                                        d.sizes[d.dims[i]])

\* C7 as amended: the chunk tuple of a data variable lists, in the order of
\* the variable's axes, the configured chunk size of each axis as it is (not
\* clipped), and the extent of an axis that has no configured size; with the
\* script's sizes over (time, depth, latitude, longitude) it is
\* (1, 1, 170, 240) for every extent; coordinates get no chunk tuple.
C7_ChunksAsConfigured ==
    (encoding # None) =>
        LET d == ds[1]
            enc == encoding[1]
        IN  /\ \A name \in cfg.variables :
                 /\ name \in DOMAIN enc
                 /\ enc[name].chunks # None
                 /\ Len(enc[name].chunks[1]) = Len(d.dims)
                 /\ \A i \in 1..Len(d.dims) :
                      enc[name].chunks[1][i] =
                        IF d.dims[i] \in DOMAIN cfg.chunk_sizes
                        THEN cfg.chunk_sizes[d.dims[i]]
                        ELSE d.sizes[d.dims[i]]
                 /\ (d.dims = StandardDims /\ cfg.chunk_sizes = DefaultChunkSizes)
                    => enc[name].chunks[1] = <<1, 1, 170, 240>>
            /\ \A name \in DOMAIN enc \ cfg.variables :
                 enc[name].chunks = None

C7_Witness ==
    /\ encoding # None
    /\ ds[1].dims = StandardDims
    /\ cfg.chunk_sizes = DefaultChunkSizes
    /\ ds[1].sizes["latitude"] < 170
    /\ ds[1].sizes["longitude"] < 240

\* C8: with a malformed configuration (a coarsening factor that is not
\* positive, a chunk size for an unknown axis) no remote open is issued.
C8_MalformedNeverOpens ==
    (\/ cfg.coarsen_factor <= 0
     \/ ~(DOMAIN cfg.chunk_sizes \subseteq AxisNames))
    => remoteOpens = 0

\* C9: the stages of a run are executed in the order open, select, coarsen,
\* downcast, wipe, rechunk, encode, write, verify, each at most once; after a
\* failure no further stage of the run executes; the destination changes only
\* once the downcast has been reached, and is written only from a
\* materialized dataset.
C9_StageOrder ==
    /\ [](IsPrefix(stages, StageOrder))
    /\ [][(stages' # stages /\ stages' # <<>>)
            => stages' = Append(stages, StageOrder[Len(stages) + 1])]_vars
    /\ [][(tpc = "failed") => (stages' = stages \/ stages' = <<>>)]_vars
    /\ [][(dest' # dest) => "downcast" \in Range(stages)]_vars
    /\ [][(dest' # dest /\ DOMAIN dest'.arrays # {})
            => (ds # None /\ ~ds[1].lazy)]_vars

C9_Witness ==
    /\ tpc = "done"
    /\ stages = StageOrder
    /\ runs = 2

\* C10: the time sample the selection keeps is the maximum of the time axis
\* the provider serves, and one time step is left.
C10_SelectsMaximum ==
    SelectionDone => ds[1].time = <<MaxOf(Range(remote.time))>>

====
